---- MODULE Spec2Model ----
(***************************************************************************)
(* Model of the two notebooks, each run cell after cell, in order:         *)
(* "QCVV/Session 3.ipynb", the quantum-volume experiment (Spec), and       *)
(* "Optimization/Session 2.ipynb", VQE, Trotterized annealing and QAOA     *)
(* for MaxCut (SpecOpt).  The notebooks' own code is the sequencing of     *)
(* calls into qiskit and the post-processing of what they return; what     *)
(* the library returns (simulation results, the fitter's statistics, the   *)
(* Hamiltonian's diagonal) is an input of the notebook and is drawn from   *)
(* small sets.  SpecSchedule runs construct_schedule on a range of         *)
(* arguments.                                                              *)
(***************************************************************************)
EXTENDS Integers, Sequences, FiniteSets, TLC

VARIABLES
    pc,               \* the cell (or loop position) executed next
    qv_circs,         \* qv_circs[trial][qidx]: circuits with measurements
    qv_circs_nomeas,  \* qv_circs_nomeas[trial][qidx]: the same, unmeasured
    backend,          \* notebook global `backend`
    shots,            \* notebook global `shots`
    trial,            \* loop variable of the two simulation loops
    ideal_results,    \* list of Result objects of the ideal simulation
    exp_results,      \* list of Result objects of the noisy simulation
    qv_fitter,        \* what the QVFitter object has been given
    qv_success_list,  \* qv_fitter.qv_success()
    qv_list,          \* qv_fitter.ydata (row 0, the only row the cell reads)
    qidx,             \* loop variable of the report loop
    next_index,       \* position of the iterator of the loop in progress
    out_ideal,        \* lines printed by the ideal-simulation cell
    out_noisy,        \* lines printed by the noisy-simulation cell
    out_report        \* lines printed by the report cell

\* Globals of Session 2
VARIABLES
    cell,             \* the cell (or loop position) of Session 2 executed next
    H_diag,           \* H_matrix.diagonal()
    opt_indices,      \* indices of the lowest-energy basis states
    opt_probs,        \* probabilities[opt_indices], as last assigned
    uses,             \* every evaluation of probabilities[opt_indices] so far
    gamma,            \* notebook global `gamma`
    beta,             \* notebook global `beta`
    T,                \* total annealing time
    N,                \* number of time steps
    gammas,           \* schedule of the H_C angles
    betas,            \* schedule of the H_X angles
    probabilities,    \* notebook global `probabilities`
    qc,               \* notebook global `qc`
    i_step,           \* loop variable `i` of the annealing loop
    zip_pos,          \* position of the iterator of the annealing loop
    var_form,         \* notebook global `var_form`
    p,                \* notebook global `p`
    result            \* notebook global `result`

qcvv_vars == <<pc, qv_circs, qv_circs_nomeas, backend, shots, trial, ideal_results,
               exp_results, qv_fitter, qv_success_list, qv_list, qidx, next_index,
               out_ideal, out_noisy, out_report>>

opt_vars == <<cell, H_diag, opt_indices, opt_probs, uses, gamma, beta, T, N, gammas,
              betas, probabilities, qc, i_step, zip_pos, var_form, p, result>>

vars == <<qcvv_vars, opt_vars>>

----------------------------------------------------------------------------
(* Experiment design cell *)

\* range(2, 6): the widths of the experiment
MinWidth == 2
MaxWidthExcl == 6

\* list(range(width)) on Python's 0-based qubit labels
RangeList(width) == [i \in 1..width |-> i - 1]

\* qubit_list = [list(range(width)) for width in range(2, 6)]
qubit_list == [k \in 1..(MaxWidthExcl - MinWidth) |-> RangeList(MinWidth + k - 1)]

\* numTrials = 100
numTrials == 100

\* "Set the number of trials (random realizations) for each width to be 50"
DocumentedTrials == 50

\* shots = 10**4
ShotsSetting == 10000

----------------------------------------------------------------------------
(* Library values as the notebook sees them *)

\* One circuit of the ensemble, "indexed as (random realization, number of
\* qubits)"; meas tells the measured circuit from its unmeasured twin.
Circuit(t, qubits, meas) == [trial |-> t, qubits |-> qubits, meas |-> meas]

\* qv.qv_circuits(qubit_list, ntrials): two lists, one entry per trial, each
\* entry a list with one circuit per element of qubit_lists.
qv_circuits(qubit_lists, ntrials) ==
    [circs  |-> [t \in 1..ntrials |->
                   [q \in 1..Len(qubit_lists) |-> Circuit(t - 1, qubit_lists[q], TRUE)]],
     nomeas |-> [t \in 1..ntrials |->
                   [q \in 1..Len(qubit_lists) |-> Circuit(t - 1, qubit_lists[q], FALSE)]]]

\* qiskit.execute(circuits, backend=...).result(): the Result of one job,
\* which holds one experiment result per circuit handed in.  shots_kw is the
\* shots keyword of the call: <<s>> when shots=s is passed, <<>> when the call
\* passes none and the job runs with the library's own default.
Execute(circuits, be, shots_kw) ==
    [backend |-> be, circuits |-> circuits, shots |-> shots_kw]

\* A printed line: its text and the values formatted into it.
Line(text, args) == [text |-> text, args |-> args]

\* np.round(x, 5) on a value held in millionths: the nearest multiple of
\* 10^-5, a tie going to the even neighbour; the result is in units of 10^-5.
Round5(x) ==
    LET q == x \div 10
        r == x % 10
    IN  IF r > 5 \/ (r = 5 /\ q % 2 = 1) THEN q + 1 ELSE q

\* 2**numQubits
Pow2(k) == 2^k

----------------------------------------------------------------------------
(* What the library may hand back to the report cell *)

\* Number of distinct statistics the fitter is taken to produce for a width.
NumReadings == 3

\* Statistics of one width, in millionths: the mean heavy-output probability
\* and the confidence the fitter derives for it.
ReadingTable ==
    << [hog |-> 666665, confidence |-> 500004],
       [hog |-> 712346, confidence |-> 974996],
       [hog |-> 750015, confidence |-> 975005],
       [hog |-> 500000, confidence |-> 0],
       [hog |-> 1000000, confidence |-> 1000000] >>

Readings == {ReadingTable[i] : i \in 1..NumReadings}

\* qv_success(): one [success, confidence] pair per entry of the fitter's
\* qubit_lists.  The pass rule is the library's: the notebook reads the flag
\* as it comes.
qv_success(stats, flags) == [i \in DOMAIN stats |-> <<flags[i], stats[i].confidence>>]

\* ydata[0]: one mean heavy-output probability per entry of qubit_lists.
ydata0(stats) == [i \in DOMAIN stats |-> stats[i].hog]

----------------------------------------------------------------------------
(* State of a fresh kernel: no cell has run, no global is bound *)

Unbound == "unbound"

\* Session 3: nothing has run.
FreshQCVV ==
    /\ pc = "generate"
    /\ qv_circs = <<>>
    /\ qv_circs_nomeas = <<>>
    /\ backend = Unbound
    /\ shots = Unbound
    /\ trial = Unbound
    /\ ideal_results = <<>>
    /\ exp_results = <<>>
    /\ qv_fitter = [qubit_lists |-> <<>>, statevectors |-> <<>>, data |-> <<>>]
    /\ qv_success_list = <<>>
    /\ qv_list = <<>>
    /\ qidx = Unbound
    /\ next_index = 0
    /\ out_ideal = <<>>
    /\ out_noisy = <<>>
    /\ out_report = <<>>

\* Session 2: nothing has run, but for the given bindings of T and N and the
\* given next cell.
FreshOpt(first_cell, T0, N0) ==
    /\ cell = first_cell
    /\ H_diag = <<>>
    /\ opt_indices = <<>>
    /\ opt_probs = Unbound
    /\ uses = <<>>
    /\ gamma = Unbound
    /\ beta = Unbound
    /\ T = T0
    /\ N = N0
    /\ gammas = <<>>
    /\ betas = <<>>
    /\ probabilities = Unbound
    /\ qc = Unbound
    /\ i_step = Unbound
    /\ zip_pos = 0
    /\ var_form = Unbound
    /\ p = Unbound
    /\ result = Unbound

Init == FreshQCVV /\ FreshOpt("opt_indices", Unbound, Unbound)

----------------------------------------------------------------------------
(* The cells of Session 3, in notebook order *)

\* qv_circs, qv_circs_nomeas = qv.qv_circuits(qubit_list, ntrials=numTrials)
GenerateCircuits ==
    /\ pc = "generate"
    /\ qv_circs' = qv_circuits(qubit_list, numTrials).circs
    /\ qv_circs_nomeas' = qv_circuits(qubit_list, numTrials).nomeas
    /\ pc' = "ideal_begin"
    /\ UNCHANGED <<backend, shots, trial, ideal_results, exp_results, qv_fitter,
                   qv_success_list, qv_list, qidx, next_index,
                   out_ideal, out_noisy, out_report>>
    /\ UNCHANGED opt_vars

\* Ideal simulation cell, up to the loop header.
IdealBegin ==
    /\ pc = "ideal_begin"
    /\ backend' = "statevector_simulator"
    /\ ideal_results' = <<>>
    /\ next_index' = 0
    /\ out_ideal' = <<>>
    /\ pc' = "ideal_loop"
    /\ UNCHANGED <<qv_circs, qv_circs_nomeas, shots, trial, exp_results, qv_fitter,
                   qv_success_list, qv_list, qidx, out_noisy, out_report>>
    /\ UNCHANGED opt_vars

\* One iteration of `for trial in range(numTrials)` of the ideal cell.
IdealStep ==
    /\ pc = "ideal_loop"
    /\ next_index < numTrials
    /\ trial' = next_index
    /\ next_index' = next_index + 1
    /\ out_ideal' = IF trial' % 10 = 0
                    THEN Append(out_ideal, Line("Simulating trial %d", <<trial'>>))
                    ELSE out_ideal
    /\ \E raised \in BOOLEAN :
         IF raised
         THEN /\ pc' = "halted"
              /\ UNCHANGED ideal_results
         ELSE /\ ideal_results' =
                    Append(ideal_results, Execute(qv_circs_nomeas[trial' + 1], backend, <<>>))
              /\ UNCHANGED pc
    /\ UNCHANGED <<qv_circs, qv_circs_nomeas, backend, shots, exp_results, qv_fitter,
                   qv_success_list, qv_list, qidx, out_noisy, out_report>>
    /\ UNCHANGED opt_vars

\* range(numTrials) is exhausted: the ideal cell ends.
IdealEnd ==
    /\ pc = "ideal_loop"
    /\ next_index >= numTrials
    /\ pc' = "noisy_begin"
    /\ UNCHANGED <<qv_circs, qv_circs_nomeas, backend, shots, trial, ideal_results,
                   exp_results, qv_fitter, qv_success_list, qv_list, qidx,
                   next_index, out_ideal, out_noisy, out_report>>
    /\ UNCHANGED opt_vars

\* Noisy simulation cell, up to the loop header.
NoisyBegin ==
    /\ pc = "noisy_begin"
    /\ backend' = "qasm_simulator"
    /\ shots' = ShotsSetting
    /\ exp_results' = <<>>
    /\ next_index' = 0
    /\ out_noisy' = <<>>
    /\ pc' = "noisy_loop"
    /\ UNCHANGED <<qv_circs, qv_circs_nomeas, trial, ideal_results, qv_fitter,
                   qv_success_list, qv_list, qidx, out_ideal, out_report>>
    /\ UNCHANGED opt_vars

\* NoisyStep with the trial's circuits taken one position further on.
NoisyStepNextTrial ==
    /\ pc = "noisy_loop"
    /\ next_index < numTrials
    /\ trial' = next_index
    /\ next_index' = next_index + 1
    /\ out_noisy' = IF trial' % 10 = 0
                    THEN Append(out_noisy, Line("Running trial %d", <<trial'>>))
                    ELSE out_noisy
    /\ \E raised \in BOOLEAN :
         IF raised
         THEN /\ pc' = "halted"
              /\ UNCHANGED exp_results
         ELSE /\ exp_results' =
                    Append(exp_results,
                           Execute(qv_circs[((trial' + 1) % numTrials) + 1], backend, <<>>))
              /\ UNCHANGED pc
    /\ UNCHANGED <<qv_circs, qv_circs_nomeas, backend, shots, ideal_results, qv_fitter,
                   qv_success_list, qv_list, qidx, out_ideal, out_report>>
    /\ UNCHANGED opt_vars

\* One iteration of `for trial in range(numTrials)` of the noisy cell.
NoisyStep ==
    /\ pc = "noisy_loop"
    /\ next_index < numTrials
    /\ trial' = next_index
    /\ next_index' = next_index + 1
    /\ out_noisy' = IF trial' % 10 = 0
                    THEN Append(out_noisy, Line("Running trial %d", <<trial'>>))
                    ELSE out_noisy
    /\ \E raised \in BOOLEAN :
         IF raised
         THEN /\ pc' = "halted"
              /\ UNCHANGED exp_results
         ELSE /\ exp_results' =
                    Append(exp_results, Execute(qv_circs[trial' + 1], backend, <<>>))
              /\ UNCHANGED pc
    /\ UNCHANGED <<qv_circs, qv_circs_nomeas, backend, shots, ideal_results, qv_fitter,
                   qv_success_list, qv_list, qidx, out_ideal, out_report>>
    /\ UNCHANGED opt_vars

\* range(numTrials) is exhausted: the noisy cell ends.
NoisyEnd ==
    /\ pc = "noisy_loop"
    /\ next_index >= numTrials
    /\ pc' = "fitter"
    /\ UNCHANGED <<qv_circs, qv_circs_nomeas, backend, shots, trial, ideal_results,
                   exp_results, qv_fitter, qv_success_list, qv_list, qidx,
                   next_index, out_ideal, out_noisy, out_report>>
    /\ UNCHANGED opt_vars

\* qv_fitter = qv.QVFitter(qubit_lists=qubit_list)
MakeFitter ==
    /\ pc = "fitter"
    /\ qv_fitter' = [qubit_lists |-> qubit_list, statevectors |-> <<>>, data |-> <<>>]
    /\ pc' = "add"
    /\ UNCHANGED <<qv_circs, qv_circs_nomeas, backend, shots, trial, ideal_results,
                   exp_results, qv_success_list, qv_list, qidx, next_index,
                   out_ideal, out_noisy, out_report>>
    /\ UNCHANGED opt_vars

\* qv_fitter.add_statevectors(ideal_results); qv_fitter.add_data(exp_results)
AddResults ==
    /\ pc = "add"
    /\ qv_fitter' = [qv_fitter EXCEPT
                       !.statevectors = qv_fitter.statevectors \o ideal_results,
                       !.data = qv_fitter.data \o exp_results]
    /\ pc' = "report_begin"
    /\ UNCHANGED <<qv_circs, qv_circs_nomeas, backend, shots, trial, ideal_results,
                   exp_results, qv_success_list, qv_list, qidx, next_index,
                   out_ideal, out_noisy, out_report>>
    /\ UNCHANGED opt_vars

\* Report cell, up to the loop header: the fitter's verdicts and statistics.
ReportBegin ==
    /\ pc = "report_begin"
    /\ \E stats \in [1..Len(qv_fitter.qubit_lists) -> Readings],
          flags \in [1..Len(qv_fitter.qubit_lists) -> BOOLEAN] :
         /\ qv_success_list' = qv_success(stats, flags)
         /\ qv_list' = ydata0(stats)
    /\ next_index' = 0
    /\ out_report' = <<>>
    /\ pc' = "report_loop"
    /\ UNCHANGED <<qv_circs, qv_circs_nomeas, backend, shots, trial, ideal_results,
                   exp_results, qv_fitter, qidx, out_ideal, out_noisy>>
    /\ UNCHANGED opt_vars

\* ReportStep with the success flag read at the first width for every width.
ReportStepFirstFlag ==
    /\ pc = "report_loop"
    /\ next_index < Len(qubit_list)
    /\ qidx' = next_index
    /\ next_index' = next_index + 1
    /\ LET qubits == qubit_list[qidx' + 1]
           hog_prob == Round5(qv_list[qidx' + 1])
           confidence == Round5(qv_success_list[qidx' + 1][2])
           is_successful == qv_success_list[1][1]
           numQubits == Len(qubits)
           stats == Line("At width/depth {0}, heavy output generation probability is {1} with confidence {2}.",
                         <<numQubits, hog_prob, confidence>>)
           verdict == IF is_successful
                      THEN Line("Quantum volume test passed for QV{0}!", <<Pow2(numQubits)>>)
                      ELSE Line("Quantum volume test failed!", <<>>)
       IN  out_report' = out_report \o <<stats, verdict>>
    /\ UNCHANGED <<pc, qv_circs, qv_circs_nomeas, backend, shots, trial, ideal_results,
                   exp_results, qv_fitter, qv_success_list, qv_list,
                   out_ideal, out_noisy>>
    /\ UNCHANGED opt_vars

\* One iteration of `for qidx, qubits in enumerate(qubit_list)`.
ReportStep ==
    /\ pc = "report_loop"
    /\ next_index < Len(qubit_list)
    /\ qidx' = next_index
    /\ next_index' = next_index + 1
    /\ LET qubits == qubit_list[qidx' + 1]
           hog_prob == Round5(qv_list[qidx' + 1])
           confidence == Round5(qv_success_list[qidx' + 1][2])
           is_successful == qv_success_list[qidx' + 1][1]
           numQubits == Len(qubits)
           stats == Line("At width/depth {0}, heavy output generation probability is {1} with confidence {2}.",
                         <<numQubits, hog_prob, confidence>>)
           verdict == IF is_successful
                      THEN Line("Quantum volume test passed for QV{0}!", <<Pow2(numQubits)>>)
                      ELSE Line("Quantum volume test failed!", <<>>)
       IN  out_report' = out_report \o <<stats, verdict>>
    /\ UNCHANGED <<pc, qv_circs, qv_circs_nomeas, backend, shots, trial, ideal_results,
                   exp_results, qv_fitter, qv_success_list, qv_list,
                   out_ideal, out_noisy>>
    /\ UNCHANGED opt_vars

\* enumerate(qubit_list) is exhausted: the notebook ends.
ReportEnd ==
    /\ pc = "report_loop"
    /\ next_index >= Len(qubit_list)
    /\ pc' = "done"
    /\ UNCHANGED <<qv_circs, qv_circs_nomeas, backend, shots, trial, ideal_results,
                   exp_results, qv_fitter, qv_success_list, qv_list, qidx,
                   next_index, out_ideal, out_noisy, out_report>>
    /\ UNCHANGED opt_vars

Next ==
    \/ GenerateCircuits
    \/ IdealBegin
    \/ IdealStep
    \/ IdealEnd
    \/ NoisyBegin
    \/ NoisyStep
    \/ NoisyEnd
    \/ MakeFitter
    \/ AddResults
    \/ ReportBegin
    \/ ReportStep
    \/ ReportEnd

Spec == Init /\ [][Next]_vars

----------------------------------------------------------------------------
(* Python floats *)

\* Significand width of the floats.  Python's float carries 53 bits; the
\* model rounds in the same way, to nearest with ties to even, at this width.
Precision == 8

\* A float is sign * m * 2^e with 2^(Precision-1) <= m < 2^Precision, or zero.
\* (Python's -0.0 compares equal to 0.0; the model keeps one zero.)
FZero == [s |-> 1, m |-> 0, e |-> 0]

Sign(v) == IF v < 0 THEN -1 ELSE 1

Abs(v) == IF v < 0 THEN -v ELSE v

\* The float nearest to sign * (num / den) * 2^e, num >= 0, den > 0.
RECURSIVE RoundRat(_, _, _, _)
RoundRat(sign, num, den, e) ==
    IF num = 0 THEN FZero
    ELSE IF num >= den * 2^Precision THEN RoundRat(sign, num, den * 2, e + 1)
    ELSE IF num < den * 2^(Precision - 1) THEN RoundRat(sign, num * 2, den, e - 1)
    ELSE LET quo == num \div den
             rem == num % den
             up == 2 * rem > den \/ (2 * rem = den /\ quo % 2 = 1)
             m == IF up THEN quo + 1 ELSE quo
         IN  IF m = 2^Precision
             THEN [s |-> sign, m |-> 2^(Precision - 1), e |-> e + 1]
             ELSE [s |-> sign, m |-> m, e |-> e]

\* float(k) for a Python int k
FromInt(k) == RoundRat(Sign(k), Abs(k), 1, 0)

\* a * b
FMul(a, b) == RoundRat(a.s * b.s, a.m * b.m, 1, a.e + b.e)

\* a / b, b nonzero
FDiv(a, b) == RoundRat(a.s * b.s, a.m, b.m, a.e - b.e)

\* -a
FNeg(a) == IF a.m = 0 THEN FZero ELSE [a EXCEPT !.s = -a.s]

\* The least exponent among the nonzero floats of a set (0 if there is none).
MinExp(fs) ==
    LET nz == {f \in fs : f.m # 0}
    IN  IF nz = {} THEN 0
        ELSE CHOOSE e \in {f.e : f \in nz} : \A f \in nz : e <= f.e

\* The exact value of a, in units of 2^e0, for e0 no greater than a's exponent.
Scaled(a, e0) == IF a.m = 0 THEN 0 ELSE a.s * a.m * 2^(a.e - e0)

\* a - b
FSub(a, b) ==
    LET e0 == MinExp({a, b})
        v == Scaled(a, e0) - Scaled(b, e0)
    IN  RoundRat(Sign(v), Abs(v), 1, e0)

\* a <= b
FLeq(a, b) == LET e0 == MinExp({a, b}) IN Scaled(a, e0) <= Scaled(b, e0)

----------------------------------------------------------------------------
(* Session 2: the annealing schedule *)

\* Entry i of construct_schedule's two lists, for delta_t = T/N:
\*     t = i * delta_t
\*     gammas += [ 2 * delta_t * t/T ]
\*     betas += [ -2 * delta_t * (1 - t/T) ]
ScheduleEntry(T0, delta_t, i) ==
    LET t == FMul(FromInt(i), delta_t)
    IN  [gamma |-> FDiv(FMul(FMul(FromInt(2), delta_t), t), FromInt(T0)),
         beta  |-> FMul(FMul(FromInt(-2), delta_t),
                        FSub(FromInt(1), FDiv(t, FromInt(T0))))]

\* construct_schedule with the loop running over range(N) only.
construct_schedule_short(T0, N0) ==
    LET delta_t == FDiv(FromInt(T0), FromInt(N0))
    IN  [gammas |-> [k \in 1..N0 |-> ScheduleEntry(T0, delta_t, k - 1).gamma],
         betas  |-> [k \in 1..N0 |-> ScheduleEntry(T0, delta_t, k - 1).beta]]

\* def construct_schedule(T, N): the lists built by the loop over range(N+1)
construct_schedule(T0, N0) ==
    LET delta_t == FDiv(FromInt(T0), FromInt(N0))
    IN  [gammas |-> [k \in 1..(N0 + 1) |-> ScheduleEntry(T0, delta_t, k - 1).gamma],
         betas  |-> [k \in 1..(N0 + 1) |-> ScheduleEntry(T0, delta_t, k - 1).beta]]

\* Largest T and N construct_schedule is run on in SpecSchedule.
MaxT == 6
MaxN == 10

\* A kernel in which only T and N are bound, to any values in range.
InitSchedule ==
    /\ FreshQCVV
    /\ \E T0 \in 1..MaxT, N0 \in 1..MaxN : FreshOpt("schedule_call", T0, N0)

\* gammas, betas = construct_schedule(T, N)
CallSchedule ==
    /\ cell = "schedule_call"
    /\ gammas' = construct_schedule(T, N).gammas
    /\ betas' = construct_schedule(T, N).betas
    /\ cell' = "schedule_returned"
    /\ UNCHANGED <<H_diag, opt_indices, opt_probs, uses, gamma, beta, T, N,
                   probabilities, qc, i_step, zip_pos, var_form, p, result>>
    /\ UNCHANGED qcvv_vars

NextSchedule == CallSchedule

SpecSchedule == InitSchedule /\ [][NextSchedule]_vars

----------------------------------------------------------------------------
(* Session 2: values the notebook handles *)

\* Number of nodes of the graph, and of qubits of H (the notebook sets
\* n = 5; the model keeps the register small).
n == 2

\* Largest energy on the diagonal of H_matrix, energies being 0..MaxEnergy.
MaxEnergy == 1

\* Parameter('name')
Parameter(name) == [kind |-> "Parameter", name |-> name, val |-> FZero]

\* A Python float bound to a name or passed as an angle.
FloatValue(f) == [kind |-> "float", name |-> "", val |-> f]

\* The angle slot of a gate that takes none.
NoAngle == [kind |-> "none", name |-> "", val |-> FZero]

\* One instruction of a one-qubit circuit: qc.h(0), qc.barrier(),
\* qc.rz(angle, 0), qc.rx(angle, 0).
Gate(name, angle) == [name |-> name, angle |-> angle, qubit |-> 0]

\* A circuit object: a QuantumCircuit with its instructions, or a library
\* ansatz with its number of layers and the parameters it was built from.
CircuitObject(kind, qubits, gates, layers, params) ==
    [kind |-> kind, qubits |-> qubits, gates |-> gates, p |-> layers, params |-> params]

NoCircuit == CircuitObject("none", 0, <<>>, 0, <<>>)

\* qc = QuantumCircuit(1); qc.h(0); qc.barrier()
HadamardCircuit == CircuitObject("QuantumCircuit", 1, <<Gate("h", NoAngle), Gate("barrier", NoAngle)>>, 0, <<>>)

\* qc.rz(g, 0); qc.rx(b, 0); qc.barrier()
AddLayer(circ, g, b) ==
    [circ EXCEPT !.gates = circ.gates \o <<Gate("rz", g), Gate("rx", b), Gate("barrier", NoAngle)>>]

\* QAOAVarForm(H, p)
QAOAVarForm(layers) == [p |-> layers]

\* var_form.construct_circuit(params)
construct_circuit(vf, params) == CircuitObject("QAOAVarForm", n, <<>>, vf.p, params)

\* The outcome distribution of the state a circuit prepares.
StateOf(circ) == [zero |-> FALSE, of |-> circ]

\* A column of np.zeros
ZeroColumn == [zero |-> TRUE, of |-> NoCircuit]

\* np.zeros((2, cols))
Zeros2(cols) == [shape |-> <<2, cols>>, cols |-> [k \in 1..cols |-> ZeroColumn]]

\* Statevector.from_instruction(circ).probabilities(), np.abs(eigenstate)**2:
\* a vector with one entry per basis state.
ProbabilityVector(circ) == [shape |-> <<2^circ.qubits>>, cols |-> <<StateOf(circ)>>]

\* arr[idx] for an index array idx is defined when every index lies inside
\* the first axis of arr (an IndexError is raised otherwise) ...
CanTake(arr, idx) == \A k \in 1..Len(idx) : idx[k] < arr.shape[1]

\* ... and selects along that axis.
Take(arr, idx) == [shape |-> <<Len(idx)>> \o Tail(arr.shape), cols |-> arr.cols]

\* One evaluation of probabilities[opt_indices], at a line of the notebook.
Use(line, arr, idx) == [line |-> line, shape |-> arr.shape, indices |-> idx]

\* min(H_matrix.diagonal())
MinOf(diag) ==
    CHOOSE v \in {diag[k] : k \in 1..Len(diag)} : \A k \in 1..Len(diag) : v <= diag[k]

\* The first index only, as np.argmin gives it.
WhereFirst(diag, v) ==
    <<(CHOOSE k \in 1..Len(diag) : diag[k] = v /\ \A j \in 1..(k - 1) : diag[j] # v) - 1>>

\* list(np.where(diag == v))[0]: the 0-based indices at which diag equals v,
\* in increasing order.
Where(diag, v) ==
    SelectSeq([k \in 1..Len(diag) |-> k - 1], LAMBDA idx : diag[idx + 1] = v)

----------------------------------------------------------------------------
(* The cells of Session 2, in notebook order *)

\* T = 5; N = 10 of the one-qubit annealing
AnnealT == 5

AnnealN == 10

\* construct_schedule(T, N) of the one-qubit annealing
AnnealSchedule == construct_schedule(AnnealT, AnnealN)

\* T = 10; N = 20 of the Trotterized annealing for MaxCut
TrotterT == 10

TrotterN == 20

\* construct_schedule(T, N) of the Trotterized annealing
TrotterSchedule == construct_schedule(TrotterT, TrotterN)

\* H_matrix = np.real(H.to_matrix()); opt_indices = ...
ComputeOptIndices ==
    /\ cell = "opt_indices"
    /\ \E diag \in [1..(2^n) -> 0..MaxEnergy] :
         /\ H_diag' = diag
         /\ opt_indices' = Where(diag, MinOf(diag))
    /\ cell' = "vqe_ansatz"
    /\ UNCHANGED <<opt_probs, uses, gamma, beta, T, N, gammas, betas,
                   probabilities, qc, i_step, zip_pos, var_form, p, result>>
    /\ UNCHANGED qcvv_vars

\* qc = RealAmplitudes(5, reps=1)
MakeVQEAnsatz ==
    /\ cell = "vqe_ansatz"
    /\ qc' = CircuitObject("RealAmplitudes", n, <<>>, 1, <<>>)
    /\ cell' = "vqe_run"
    /\ UNCHANGED <<H_diag, opt_indices, opt_probs, uses, gamma, beta, T, N,
                   gammas, betas, probabilities, i_step, zip_pos, var_form, p,
                   result>>
    /\ UNCHANGED qcvv_vars

\* vqe = VQE(H, qc, ...); result = vqe.run()
RunVQE ==
    /\ cell = "vqe_run"
    /\ result' = [algo |-> "VQE", circuit |-> qc]
    /\ cell' = "vqe_probs"
    /\ UNCHANGED <<H_diag, opt_indices, opt_probs, uses, gamma, beta, T, N,
                   gammas, betas, probabilities, qc, i_step, zip_pos,
                   var_form, p>>
    /\ UNCHANGED qcvv_vars

\* probabilities = np.abs(result.eigenstate)**2
\* opt_probs = probabilities[opt_indices]
VQEProbabilities ==
    /\ cell = "vqe_probs"
    /\ probabilities' = ProbabilityVector(result.circuit)
    /\ uses' = Append(uses, Use(204, probabilities', opt_indices))
    /\ IF CanTake(probabilities', opt_indices)
       THEN opt_probs' = Take(probabilities', opt_indices) /\ cell' = "parameters"
       ELSE UNCHANGED opt_probs /\ cell' = "raised_204"
    /\ UNCHANGED <<H_diag, opt_indices, gamma, beta, T, N, gammas, betas, qc,
                   i_step, zip_pos, var_form, p, result>>
    /\ UNCHANGED qcvv_vars

\* gamma, beta = Parameter('gamma'), Parameter('beta') and the one-step circuit
DefineParameters ==
    /\ cell = "parameters"
    /\ gamma' = Parameter("gamma")
    /\ beta' = Parameter("beta")
    /\ qc' = AddLayer(HadamardCircuit, gamma', beta')
    /\ cell' = "schedule"
    /\ UNCHANGED <<H_diag, opt_indices, opt_probs, uses, T, N, gammas, betas,
                   probabilities, i_step, zip_pos, var_form, p, result>>
    /\ UNCHANGED qcvv_vars

\* T = 5; N = 10; gammas, betas = construct_schedule(T, N)
FirstSchedule ==
    /\ cell = "schedule"
    /\ T' = AnnealT
    /\ N' = AnnealN
    /\ gammas' = AnnealSchedule.gammas
    /\ betas' = AnnealSchedule.betas
    /\ cell' = "anneal_begin"
    /\ UNCHANGED <<H_diag, opt_indices, opt_probs, uses, gamma, beta,
                   probabilities, qc, i_step, zip_pos, var_form, p, result>>
    /\ UNCHANGED qcvv_vars

\* probabilities = np.zeros((2, N+1)) and the circuit set up before the loop
AnnealBegin ==
    /\ cell = "anneal_begin"
    /\ probabilities' = Zeros2(N + 1)
    /\ qc' = HadamardCircuit
    /\ zip_pos' = 0
    /\ cell' = "anneal_loop"
    /\ UNCHANGED <<H_diag, opt_indices, opt_probs, uses, gamma, beta, T, N,
                   gammas, betas, i_step, var_form, p, result>>
    /\ UNCHANGED qcvv_vars

\* AnnealStep storing the probabilities one column further on.
AnnealStepNextColumn ==
    /\ cell = "anneal_loop"
    /\ zip_pos < Len(gammas) /\ zip_pos < Len(betas)
    /\ i_step' = zip_pos
    /\ zip_pos' = zip_pos + 1
    /\ gamma' = FloatValue(gammas[zip_pos + 1])
    /\ beta' = FloatValue(betas[zip_pos + 1])
    /\ qc' = AddLayer(qc, gamma', beta')
    /\ IF i_step' + 1 < probabilities.shape[2]
       THEN /\ probabilities' = [probabilities EXCEPT !.cols[i_step' + 2] = StateOf(qc')]
            /\ UNCHANGED cell
       ELSE /\ UNCHANGED probabilities
            /\ cell' = "raised_351"
    /\ UNCHANGED <<H_diag, opt_indices, opt_probs, uses, T, N, gammas, betas,
                   var_form, p, result>>
    /\ UNCHANGED qcvv_vars

\* One iteration of `for i, (gamma, beta) in enumerate(zip(gammas, betas))`.
AnnealStep ==
    /\ cell = "anneal_loop"
    /\ zip_pos < Len(gammas) /\ zip_pos < Len(betas)
    /\ i_step' = zip_pos
    /\ zip_pos' = zip_pos + 1
    /\ gamma' = FloatValue(gammas[zip_pos + 1])
    /\ beta' = FloatValue(betas[zip_pos + 1])
    /\ qc' = AddLayer(qc, gamma', beta')
    /\ IF i_step' < probabilities.shape[2]
       THEN /\ probabilities' = [probabilities EXCEPT !.cols[i_step' + 1] = StateOf(qc')]
            /\ UNCHANGED cell
       ELSE /\ UNCHANGED probabilities
            /\ cell' = "raised_351"
    /\ UNCHANGED <<H_diag, opt_indices, opt_probs, uses, T, N, gammas, betas,
                   var_form, p, result>>
    /\ UNCHANGED qcvv_vars

\* zip(gammas, betas) is exhausted: the annealing cell ends.
AnnealEnd ==
    /\ cell = "anneal_loop"
    /\ ~(zip_pos < Len(gammas) /\ zip_pos < Len(betas))
    /\ cell' = "qaoa_schedule"
    /\ UNCHANGED <<H_diag, opt_indices, opt_probs, uses, gamma, beta, T, N,
                   gammas, betas, probabilities, qc, i_step, zip_pos,
                   var_form, p, result>>
    /\ UNCHANGED qcvv_vars

\* QAOAFromSchedule with one layer fewer than the schedule has time steps.
QAOAFromScheduleN ==
    /\ cell = "qaoa_schedule"
    /\ T' = TrotterT
    /\ N' = TrotterN
    /\ gammas' = TrotterSchedule.gammas
    /\ betas' = TrotterSchedule.betas
    /\ var_form' = QAOAVarForm(TrotterN)
    /\ qc' = construct_circuit(var_form',
                               [k \in 1..(Len(gammas') + Len(betas')) |->
                                   FloatValue((gammas' \o betas')[k])])
    /\ cell' = "qaoa_sv"
    /\ UNCHANGED <<H_diag, opt_indices, opt_probs, uses, gamma, beta,
                   probabilities, i_step, zip_pos, p, result>>
    /\ UNCHANGED qcvv_vars

\* T = 10; N = 20; gammas, betas = construct_schedule(T, N)
\* var_form = QAOAVarForm(H, N+1); qc = var_form.construct_circuit(gammas + betas)
QAOAFromSchedule ==
    /\ cell = "qaoa_schedule"
    /\ T' = TrotterT
    /\ N' = TrotterN
    /\ gammas' = TrotterSchedule.gammas
    /\ betas' = TrotterSchedule.betas
    /\ var_form' = QAOAVarForm(TrotterN + 1)
    /\ qc' = construct_circuit(var_form',
                               [k \in 1..(Len(gammas') + Len(betas')) |->
                                   FloatValue((gammas' \o betas')[k])])
    /\ cell' = "qaoa_sv"
    /\ UNCHANGED <<H_diag, opt_indices, opt_probs, uses, gamma, beta,
                   probabilities, i_step, zip_pos, p, result>>
    /\ UNCHANGED qcvv_vars

\* sv = Statevector.from_instruction(qc); probabilities = sv.probabilities()
QAOAStatevector ==
    /\ cell = "qaoa_sv"
    /\ probabilities' = ProbabilityVector(qc)
    /\ cell' = "qaoa_opt_probs"
    /\ UNCHANGED <<H_diag, opt_indices, opt_probs, uses, gamma, beta, T, N,
                   gammas, betas, qc, i_step, zip_pos, var_form, p, result>>
    /\ UNCHANGED qcvv_vars

\* opt_probs = probabilities[opt_indices]
QAOAOptProbs ==
    /\ cell = "qaoa_opt_probs"
    /\ uses' = Append(uses, Use(471, probabilities, opt_indices))
    /\ IF CanTake(probabilities, opt_indices)
       THEN opt_probs' = Take(probabilities, opt_indices) /\ cell' = "rebind"
       ELSE UNCHANGED opt_probs /\ cell' = "raised_471"
    /\ UNCHANGED <<H_diag, opt_indices, gamma, beta, T, N, gammas, betas,
                   probabilities, qc, i_step, zip_pos, var_form, p, result>>
    /\ UNCHANGED qcvv_vars

\* RebindParameters leaving gamma and beta as they are.
RebindParametersSkipped ==
    /\ cell = "rebind"
    /\ UNCHANGED <<gamma, beta>>
    /\ cell' = "p1_ansatz"
    /\ UNCHANGED <<H_diag, opt_indices, opt_probs, uses, T, N, gammas, betas,
                   probabilities, qc, i_step, zip_pos, var_form, p, result>>
    /\ UNCHANGED qcvv_vars

\* gamma, beta = Parameter('gamma'), Parameter('beta')
RebindParameters ==
    /\ cell = "rebind"
    /\ gamma' = Parameter("gamma")
    /\ beta' = Parameter("beta")
    /\ cell' = "p1_ansatz"
    /\ UNCHANGED <<H_diag, opt_indices, opt_probs, uses, T, N, gammas, betas,
                   probabilities, qc, i_step, zip_pos, var_form, p, result>>
    /\ UNCHANGED qcvv_vars

\* p = 1; var_form = QAOAVarForm(H, p); qc = var_form.construct_circuit([gamma, beta])
P1Ansatz ==
    /\ cell = "p1_ansatz"
    /\ p' = 1
    /\ var_form' = QAOAVarForm(p')
    /\ qc' = construct_circuit(var_form', <<gamma, beta>>)
    /\ cell' = "qaoa_run"
    /\ UNCHANGED <<H_diag, opt_indices, opt_probs, uses, gamma, beta, T, N,
                   gammas, betas, probabilities, i_step, zip_pos, result>>
    /\ UNCHANGED qcvv_vars

\* qaoa_mes = QAOA(H, p=1, ...); result = qaoa_mes.run()
RunQAOA ==
    /\ cell = "qaoa_run"
    /\ result' = [algo |-> "QAOA", circuit |-> CircuitObject("QAOAVarForm", n, <<>>, 1, <<>>)]
    /\ cell' = "qaoa_probs"
    /\ UNCHANGED <<H_diag, opt_indices, opt_probs, uses, gamma, beta, T, N,
                   gammas, betas, probabilities, qc, i_step, zip_pos,
                   var_form, p>>
    /\ UNCHANGED qcvv_vars

\* probabilities = np.abs(result['eigenstate'])**2, then
\* probabilities[opt_indices] in the print and in the plot
QAOAProbabilities ==
    /\ cell = "qaoa_probs"
    /\ probabilities' = ProbabilityVector(result.circuit)
    /\ uses' = uses \o <<Use(594, probabilities', opt_indices),
                          Use(599, probabilities', opt_indices)>>
    /\ cell' = IF CanTake(probabilities', opt_indices) THEN "optimizer" ELSE "raised_594"
    /\ UNCHANGED <<H_diag, opt_indices, opt_probs, gamma, beta, T, N, gammas,
                   betas, qc, i_step, zip_pos, var_form, p, result>>
    /\ UNCHANGED qcvv_vars

\* qaoa = MinimumEigenOptimizer(QAOA(p=1, ...)); result = qaoa.solve(qp)
SolveWithOptimizer ==
    /\ cell = "optimizer"
    /\ result' = [algo |-> "MinimumEigenOptimizer", circuit |-> NoCircuit]
    /\ cell' = "done"
    /\ UNCHANGED <<H_diag, opt_indices, opt_probs, uses, gamma, beta, T, N,
                   gammas, betas, probabilities, qc, i_step, zip_pos,
                   var_form, p>>
    /\ UNCHANGED qcvv_vars

NextOpt ==
    \/ ComputeOptIndices
    \/ MakeVQEAnsatz
    \/ RunVQE
    \/ VQEProbabilities
    \/ DefineParameters
    \/ FirstSchedule
    \/ AnnealBegin
    \/ AnnealStep
    \/ AnnealEnd
    \/ QAOAFromSchedule
    \/ QAOAStatevector
    \/ QAOAOptProbs
    \/ RebindParameters
    \/ P1Ansatz
    \/ RunQAOA
    \/ QAOAProbabilities
    \/ SolveWithOptimizer

SpecOpt == Init /\ [][NextOpt]_vars

----------------------------------------------------------------------------
(* Properties *)

\* Every circuit of a Result belongs to trial k and is measured or not as told.
FromTrial(res, k, meas) ==
    \A q \in DOMAIN res.circuits :
        res.circuits[q].trial = k /\ res.circuits[q].meas = meas

\* C8: once the two result lists have been handed to the fitter, each has
\* exactly numTrials entries, and entry k of the ideal list was produced from
\* qv_circs_nomeas[k] while entry k of the noisy list was produced from
\* qv_circs[k], the unmeasured and the measured circuits of the same trial k.
TrialPairing ==
    pc \in {"report_begin", "report_loop", "done"} =>
        /\ Len(qv_fitter.statevectors) = numTrials
        /\ Len(qv_fitter.data) = numTrials
        /\ \A k \in 0..(numTrials - 1) :
             /\ qv_fitter.statevectors[k + 1].circuits = qv_circs_nomeas[k + 1]
             /\ qv_fitter.data[k + 1].circuits = qv_circs[k + 1]
             /\ FromTrial(qv_fitter.statevectors[k + 1], k, FALSE)
             /\ FromTrial(qv_fitter.data[k + 1], k, TRUE)
             /\ Len(qv_fitter.data[k + 1].circuits) = Len(qubit_list)

\* The fitter holds both lists, one job per trial and one circuit per width.
TrialPairingWitness ==
    /\ pc = "report_begin"
    /\ Len(qv_fitter.statevectors) = numTrials
    /\ Len(qv_fitter.data) = numTrials
    /\ Len(qv_fitter.data[numTrials].circuits) = Len(qubit_list)

PassedText == "Quantum volume test passed for QV{0}!"
FailedText == "Quantum volume test failed!"

\* C10: while and after the report loop runs, the report holds exactly two
\* lines per width index processed so far, in the order of qubit_list: the
\* statistics line carrying that index's number of qubits, rounded
\* heavy-output probability and rounded confidence, then one outcome line,
\* which is 'passed for QV 2^numQubits' exactly when that index's success
\* flag is true and 'failed' otherwise; when the notebook is done every
\* width index has been reported once and none twice.
ReportPerWidth ==
    pc \in {"report_loop", "done"} =>
        /\ Len(out_report) = 2 * next_index
        /\ pc = "done" => next_index = Len(qubit_list)
        /\ \A i \in 1..next_index :
             LET stats == out_report[2 * i - 1]
                 verdict == out_report[2 * i]
                 w == Len(qubit_list[i])
             IN  /\ stats.args = <<w, Round5(qv_list[i]), Round5(qv_success_list[i][2])>>
                 /\ verdict.text \in {PassedText, FailedText}
                 /\ verdict.text = PassedText <=> qv_success_list[i][1]
                 /\ verdict.text = PassedText => verdict.args = <<2^w>>
                 /\ w = MinWidth + i - 1

\* The report is complete, with a passed and a failed width whose statistics
\* differ.
ReportPerWidthWitness ==
    /\ pc = "done"
    /\ Len(out_report) = 2 * Len(qubit_list)
    /\ \E i, j \in 1..Len(qubit_list) :
         /\ qv_success_list[i][1]
         /\ ~qv_success_list[j][1]
         /\ qv_list[i] # qv_list[j]
         /\ qv_success_list[i][2] # qv_success_list[j][2]

\* C11: the ensemble generated for the experiment, and the two result lists
\* simulated from it and analysed, have 50 trials each.
FiftyTrials ==
    /\ pc # "generate" => Len(qv_circs) = DocumentedTrials /\ Len(qv_circs_nomeas) = DocumentedTrials
    /\ pc \in {"report_begin", "report_loop", "done"} =>
         /\ Len(qv_fitter.statevectors) = DocumentedTrials
         /\ Len(qv_fitter.data) = DocumentedTrials

\* C16: every noisy execution is run with the shot count the noisy cell
\* configures: each Result of exp_results comes from a call that was given
\* shots = 10**4, the value of the global `shots`.
ShotsAsConfigured ==
    \A k \in 1..Len(exp_results) : exp_results[k].shots = <<shots>>

\* delta_t and 2 * delta_t for the current T and N
DeltaT == FDiv(FromInt(T), FromInt(N))
TwoDeltaT == FMul(FromInt(2), DeltaT)

\* The exact value a - b - c, in units of 2^e0.
ExactGap(a, b, c, e0) == Scaled(a, e0) - Scaled(b, e0) - Scaled(c, e0)

\* a - b = c, exactly
ExactlyApart(a, b, c) == ExactGap(a, b, c, MinExp({a, b, c})) = 0

\* a - b = c up to rounding: within 4 * 2^-Precision of 2*delta_t
NearlyApart(a, b, c) ==
    LET e0 == MinExp({a, b, c, TwoDeltaT})
    IN  Abs(ExactGap(a, b, c, e0)) * 2^Precision
            <= 4 * Scaled(TwoDeltaT, e0)

\* What holds of the schedule whatever the rounding: N+1 entries per list,
\* each the value of its expression, gammas starting at 0 and betas at
\* -2*delta_t, both lists non-decreasing.
ScheduleSkeleton ==
    /\ Len(gammas) = N + 1
    /\ Len(betas) = N + 1
    /\ \A k \in 1..(N + 1) :
         /\ gammas[k] = FDiv(FMul(TwoDeltaT, FMul(FromInt(k - 1), DeltaT)), FromInt(T))
         /\ betas[k] = FMul(FNeg(TwoDeltaT),
                            FSub(FromInt(1), FDiv(FMul(FromInt(k - 1), DeltaT), FromInt(T))))
    /\ gammas[1] = FZero
    /\ betas[1] = FNeg(TwoDeltaT)
    /\ \A k \in 1..N : FLeq(gammas[k], gammas[k + 1]) /\ FLeq(betas[k], betas[k + 1])

\* C12 as stated: construct_schedule(T, N) returns two lists of N+1 entries
\* with gammas[0] = 0, betas[N] = 0, gammas non-decreasing from 0 to
\* 2*delta_t, betas non-decreasing from -2*delta_t to 0, and
\* gammas[i] - betas[i] = 2*delta_t for every i, all as exact equalities.
ScheduleExact ==
    cell = "schedule_returned" =>
        /\ ScheduleSkeleton
        /\ betas[N + 1] = FZero
        /\ gammas[N + 1] = TwoDeltaT
        /\ \A k \in 1..(N + 1) : ExactlyApart(gammas[k], betas[k], TwoDeltaT)

\* C12, amended: construct_schedule(T, N) returns two lists of N+1 entries,
\* entry i holding the float values of 2*dt*(i*dt)/T and -2*dt*(1 - i*dt/T);
\* gammas[0] = 0 and betas[0] = -2*dt exactly and both lists are
\* non-decreasing; betas[N] = 0, gammas[N] = 2*dt and
\* gammas[i] - betas[i] = 2*dt hold up to floating-point rounding only.
ScheduleRounded ==
    cell = "schedule_returned" =>
        /\ ScheduleSkeleton
        /\ NearlyApart(betas[N + 1], FZero, FZero)
        /\ NearlyApart(gammas[N + 1], FZero, TwoDeltaT)
        /\ \A k \in 1..(N + 1) : NearlyApart(gammas[k], betas[k], TwoDeltaT)

\* A schedule has been returned in which rounding shows: some
\* gammas[i] - betas[i] is not 2*delta_t.
ScheduleRoundedWitness ==
    /\ cell = "schedule_returned"
    /\ Len(gammas) = N + 1
    /\ \E k \in 1..(N + 1) : ~ExactlyApart(gammas[k], betas[k], TwoDeltaT)


----------------------------------------------------------------------------
(* Session 2 in notebook order *)

\* The indices 0 .. 2^n - 1 of the basis states.
BasisIndices == 0..(2^n - 1)

\* idx lists, once each, exactly the basis states of least diagonal energy.
IsMinimiserList(idx) ==
    /\ Len(idx) >= 1
    /\ \A j, k \in 1..Len(idx) : j # k => idx[j] # idx[k]
    /\ \A b \in BasisIndices :
         (\E k \in 1..Len(idx) : idx[k] = b)
            <=> (\A c \in BasisIndices : H_diag[b + 1] <= H_diag[c + 1])

\* C15: once computed, opt_indices is exactly the set of basis-state
\* indices in 0..2^n-1 whose diagonal energy is the minimum one: it is not
\* empty, holds every minimiser (all ties) and no index of larger energy.
OptIndicesAreMinimisers ==
    cell # "opt_indices" => IsMinimiserList(opt_indices)

\* A diagonal with a tie for the minimum and a state above it has been
\* processed.
OptIndicesAreMinimisersWitness ==
    /\ cell = "vqe_ansatz"
    /\ Len(opt_indices) >= 2
    /\ \E b \in BasisIndices : H_diag[b + 1] > H_diag[opt_indices[1] + 1]

\* The cells in which qc is the circuit built from the schedule.
ScheduleCircuitCells == {"qaoa_sv", "qaoa_opt_probs", "rebind", "p1_ansatz"}

\* C13: in the Trotterized annealing for MaxCut the number of layers given
\* to QAOAVarForm equals the number of time steps of the schedule returned by
\* construct_schedule(T, N), and the parameter vector passed to
\* construct_circuit has exactly 2p entries, the p gammas first and then the
\* p betas, each in time-step order.
LayersMatchSchedule ==
    cell \in ScheduleCircuitCells =>
        /\ T = TrotterT /\ N = TrotterN
        /\ gammas = TrotterSchedule.gammas
        /\ betas = TrotterSchedule.betas
        /\ var_form.p = Len(gammas)
        /\ var_form.p = Len(betas)
        /\ qc.p = var_form.p
        /\ Len(qc.params) = 2 * var_form.p
        /\ \A k \in 1..var_form.p :
             /\ qc.params[k] = FloatValue(gammas[k])
             /\ qc.params[var_form.p + k] = FloatValue(betas[k])

\* The circuit for T = 10, N = 20 has been built, with 21 layers.
LayersMatchScheduleWitness ==
    /\ cell = "qaoa_sv"
    /\ N = TrotterN
    /\ qc.kind = "QAOAVarForm"
    /\ Len(qc.params) = 2 * (TrotterN + 1)

\* The instructions before the first layer: h and barrier.
PreambleLen == Len(HadamardCircuit.gates)

\* Instructions per layer: rz, rx, barrier.
LayerLen == Len(AddLayer(NoCircuit, NoAngle, NoAngle).gates)

\* Layer k (from 1) of circuit circ is rz(gammas[k]), rx(betas[k]), barrier.
IsLayer(circ, k) ==
    /\ circ.gates[PreambleLen + LayerLen * (k - 1) + 1] = Gate("rz", FloatValue(gammas[k]))
    /\ circ.gates[PreambleLen + LayerLen * (k - 1) + 2] = Gate("rx", FloatValue(betas[k]))
    /\ circ.gates[PreambleLen + LayerLen * (k - 1) + 3] = Gate("barrier", NoAngle)

\* Column k (from 1) holds the distribution of the state after the Hadamard
\* and the first k layers.
ColumnWritten(k) ==
    /\ ~probabilities.cols[k].zero
    /\ probabilities.cols[k].of.gates = SubSeq(qc.gates, 1, PreambleLen + LayerLen * k)

\* C14: the one-qubit annealing loop runs exactly N+1 iterations; each
\* iteration appends one rz(gammas[i]) and then one rx(betas[i]) to the circuit
\* and writes column i of the 2 x (N+1) probabilities array, so that after the
\* loop every column holds the probabilities of the state after the initial
\* Hadamard and the first i+1 layers, no column is left at its zeros and no
\* index was out of range.
AnnealingColumns ==
    /\ cell \in {"anneal_loop", "qaoa_schedule"} =>
         /\ probabilities.shape = <<2, N + 1>>
         /\ zip_pos <= N + 1
         /\ Len(qc.gates) = PreambleLen + LayerLen * zip_pos
         /\ SubSeq(qc.gates, 1, PreambleLen) = HadamardCircuit.gates
         /\ \A k \in 1..(N + 1) :
              IF k <= zip_pos
              THEN IsLayer(qc, k) /\ ColumnWritten(k)
              ELSE probabilities.cols[k] = ZeroColumn
    /\ cell = "qaoa_schedule" => zip_pos = N + 1
    /\ cell # "raised_351"

\* The loop has ended after its 11 iterations for N = 10.
AnnealingColumnsWitness ==
    /\ cell = "qaoa_schedule"
    /\ N = AnnealN
    /\ zip_pos = AnnealN + 1
    /\ ColumnWritten(AnnealN + 1)

\* The cells after the p = 1 ansatz has been built.
AfterP1Ansatz == {"qaoa_run", "qaoa_probs", "optimizer", "done"}

\* C17: with the cells run in order, the annealing loop leaves the globals
\* gamma and beta bound to the last floats of the schedule, yet the p = 1
\* ansatz is built by construct_circuit([gamma, beta]) with both names bound
\* to symbolic Parameters again; and every probabilities[opt_indices] is
\* evaluated while probabilities is a vector of length 2^n, never the
\* 2 x (N+1) annealing array, with opt_indices as it was computed.
GlobalsReboundInOrder ==
    /\ cell = "qaoa_schedule" =>
         /\ gamma = FloatValue(gammas[Len(gammas)])
         /\ beta = FloatValue(betas[Len(betas)])
    /\ cell \in AfterP1Ansatz =>
         qc.params = <<Parameter("gamma"), Parameter("beta")>>
    /\ \A u \in 1..Len(uses) :
         /\ uses[u].shape = <<2^n>>
         /\ uses[u].indices = opt_indices
         /\ IsMinimiserList(uses[u].indices)
    /\ cell \notin {"raised_204", "raised_471", "raised_594"}

\* The notebook has run to its end: the loop had bound gamma and beta to
\* floats, the p = 1 ansatz holds Parameters, and all four indexings happened.
GlobalsReboundInOrderWitness ==
    /\ cell = "done"
    /\ Len(uses) = 4
    /\ qc.params = <<Parameter("gamma"), Parameter("beta")>>
    /\ gamma.kind = "Parameter"

====
